---- MODULE Spec2Model ----
(***************************************************************************)
(* A model of dcm2bids_prep.py (canlab/bidskit): the two-pass orchestrator *)
(* main(), the tree scanner scan_dicom_series(), the header reader         *)
(* bids_dcm_info() and the protocol dictionary functions                   *)
(* bids_load_prot_dict() / bids_create_prot_dict().                        *)
(*                                                                         *)
(* Spec     : runs of the script (main) with the user editing the          *)
(*            dictionary file and the output root between runs.            *)
(* SpecLib  : the module's functions called one at a time on the same      *)
(*            file system (the functions main does not reach are checked   *)
(*            here).                                                       *)
(* SpecAll  : both together.                                               *)
(***************************************************************************)
EXTENDS Integers, Sequences, FiniteSets, TLC

VARIABLES
    dictPath,       \* what is at <root>/Protocol_Translator.json
    bidsRoot,       \* TRUE iff the output root directory exists
    tree,           \* os.walk of the input directory: the file list of each directory visited
    manifest,       \* rows of the participants manifest
    outTree,        \* series placed in the output tree
    pc,             \* position of the running script ("idle": no process)
    prot_dict,      \* main's local prot_dict
    first_pass,     \* main's local first_pass ("unset" until assigned)
    series_list,    \* main's local series_list
    exitCode,       \* exit status of the process (meaningful once pc is "done" or "crashed")
    error,          \* the uncaught exception that ended the process, or "none"
    stdout,         \* what the current run or call has printed
    runs,           \* number of runs started
    dictBefore,     \* dictPath when the current run or call began
    firstRunAbsent, \* TRUE iff the first run began with nothing at the dictionary path
    op,             \* the function called last (SpecLib)
    arg,            \* its dictionary argument (bids_create_prot_dict)
    ret,            \* its result
    calls,          \* number of calls made (SpecLib)
    created         \* <<d>> once a bids_create_prot_dict call given d has written the file, else <<>>

vars == <<dictPath, bidsRoot, tree, manifest, outTree, pc, prot_dict, first_pass,
          series_list, exitCode, error, stdout, runs, dictBefore, firstRunAbsent,
          op, arg, ret, calls, created>>

fsVars   == <<dictPath, bidsRoot, tree, manifest, outTree>>
progVars == <<pc, prot_dict, first_pass, series_list, exitCode, error, runs, firstRunAbsent>>
libVars  == <<op, arg, ret, calls, created>>

(***************************************************************************)
(* Bounds                                                                  *)
(***************************************************************************)
NumSeries  == 2   \* distinct series keys
MaxMembers == 2   \* members of a dictionary file / items of a dict
MaxDirs    == 2   \* directories visited by a walk
MaxFiles   == 2   \* files in one directory
MaxRuns    == 2   \* runs of the script
MaxCalls   == 2   \* function calls in SpecLib

(***************************************************************************)
(* Values                                                                  *)
(***************************************************************************)
Series      == 1..NumSeries
EXCLUDE     == "EXCLUDE"
Labels      == {EXCLUDE, "T1w"}
DumpIndent  == 4           \* json.dump(..., indent=4, ...)
Indents     == {0, DumpIndent}
DefaultSex  == "Unknown"
DefaultAge  == 0
ExitClean   == 0           \* sys.exit(0)
ExitFatal   == 1           \* sys.exit(1)

SeqsUpTo(S, n) == UNION {[1..m -> S] : m \in 0..n}

Range(s) == {s[i] : i \in 1..Len(s)}

\* A dict item / a member of a JSON object: key and value.
Item(k, v) == [key |-> k, val |-> v]
Items      == {Item(k, v) : k \in Series, v \in Labels}

KeysOf(d)  == {d[i].key : i \in 1..Len(d)}

\* A Python dict: items in insertion order, keys distinct.
IsDict(d)  == \A i, j \in 1..Len(d) : d[i].key = d[j].key => i = j
Dicts      == {d \in SeqsUpTo(Items, MaxMembers) : IsDict(d)}
EmptyDict  == <<>>

\* The dict as a function from its keys to its values.
Mapping(d) == [k \in KeysOf(d) |-> d[CHOOSE i \in 1..Len(d) : d[i].key = k].val]

(***************************************************************************)
(* The dictionary path. A file's text is either not JSON (valid = FALSE)   *)
(* or a JSON object: its members in textual order (a hand-edited file may  *)
(* repeat a key) and the indentation it is written with.                   *)
(***************************************************************************)
Absent    == [kind |-> "absent", valid |-> FALSE, indent |-> 0, members |-> <<>>]
Directory == [kind |-> "dir",    valid |-> FALSE, indent |-> 0, members |-> <<>>]
Garbage   == [kind |-> "file",   valid |-> FALSE, indent |-> 0, members |-> <<>>]
JsonFile(ind, ms) == [kind |-> "file", valid |-> TRUE, indent |-> ind, members |-> ms]

DictPaths == {Absent, Directory, Garbage}
             \cup {JsonFile(ind, ms) : ind \in Indents,
                                       ms \in SeqsUpTo(Items, MaxMembers)}

isfile(p) == p.kind = "file"

(***************************************************************************)
(* Files of the input tree: a file either fails to parse as a DICOM header *)
(* or parses to a header with a series key and, unless anonymised,         *)
(* PatientSex and PatientAge.                                              *)
(***************************************************************************)
BadFile == [ok |-> FALSE, series |-> 0, hasSex |-> FALSE, Sex |-> "", hasAge |-> FALSE, Age |-> 0]
Header(s, sx, ag) == [ok |-> TRUE, series |-> s, hasSex |-> sx # "", Sex |-> sx,
                      hasAge |-> ag # 0, Age |-> ag]
Files == {BadFile} \cup {Header(s, IF s = 1 THEN "M" ELSE "", IF s = 1 THEN 30 ELSE 0) : s \in Series}
Trees == SeqsUpTo(SeqsUpTo(Files, MaxFiles), MaxDirs)

AllFiles(t) == UNION {Range(t[i]) : i \in 1..Len(t)}

(***************************************************************************)
(* json.load / json.dump                                                   *)
(***************************************************************************)
\* (an existing key keeps its old value)
DictSet_keep_first(d, k, v) ==
    IF k \in KeysOf(d) THEN d ELSE Append(d, Item(k, v))

\* dict[k] = v: an existing key keeps its position and takes the new value.
DictSet(d, k, v) ==
    IF k \in KeysOf(d)
    THEN [i \in 1..Len(d) |-> IF d[i].key = k THEN Item(k, v) ELSE d[i]]
    ELSE Append(d, Item(k, v))

\* json.load of a JSON object: the members are assigned in textual order.
RECURSIVE json_load_from(_, _, _)
json_load_from(ms, i, d) ==
    IF i > Len(ms) THEN d
    ELSE json_load_from(ms, i + 1, DictSet(d, ms[i].key, ms[i].val))

json_load(text) == json_load_from(text.members, 1, EmptyDict)

\* json.dump(prot_dict, fd, indent=4, separators=(',', ':')): items in dict order.
json_dump(d) == JsonFile(DumpIndent, d)

(***************************************************************************)
(* bids_load_prot_dict(prot_dict_json)                                     *)
(* raised: the exception json.load lets through; value: the dict returned; *)
(* fs: the dictionary path afterwards (the file is opened 'r').            *)
(***************************************************************************)
bids_load_prot_dict_truncating(p) ==
    IF isfile(p)
    THEN [raised |-> "none", value |-> EmptyDict, fs |-> JsonFile(DumpIndent, <<>>)]
    ELSE [raised |-> "none", value |-> EmptyDict, fs |-> p]

bids_load_prot_dict_default_on_error(p) ==
    IF isfile(p) /\ p.valid
    THEN [raised |-> "none", value |-> json_load(p), fs |-> p]
    ELSE [raised |-> "none", value |-> EmptyDict, fs |-> p]

bids_load_prot_dict(p) ==
    IF isfile(p)
    THEN IF p.valid
         THEN [raised |-> "none", value |-> json_load(p), fs |-> p]
         ELSE [raised |-> "JSONDecodeError", value |-> EmptyDict, fs |-> p]
    ELSE [raised |-> "none", value |-> EmptyDict, fs |-> p]

(***************************************************************************)
(* bids_create_prot_dict(prot_dict_json, prot_dict)                        *)
(***************************************************************************)
MsgExists   == "* Protocol dictionary already exists"
MsgSkipping == "* Skipping creation of new dictionary"
MsgCreated  == "New protocol dictionary created"

bids_create_prot_dict_overwriting(p, d) ==
    IF p.kind = "dir"
    THEN [raised |-> "IsADirectoryError", out |-> <<>>, fs |-> p]
    ELSE [raised |-> "none", out |-> <<MsgCreated>>, fs |-> json_dump(d)]

bids_create_prot_dict_all_excluded(p, d) ==
    IF isfile(p)
    THEN [raised |-> "none", out |-> <<MsgExists, MsgSkipping>>, fs |-> p]
    ELSE IF p.kind = "dir"
         THEN [raised |-> "IsADirectoryError", out |-> <<>>, fs |-> p]
         ELSE [raised |-> "none", out |-> <<MsgCreated>>,
               fs |-> json_dump([i \in 1..Len(d) |-> Item(d[i].key, EXCLUDE)])]

bids_create_prot_dict(p, d) ==
    IF isfile(p)
    THEN [raised |-> "none", out |-> <<MsgExists, MsgSkipping>>, fs |-> p]
    ELSE IF p.kind = "dir"
         \* open(prot_dict_json, 'w') on a directory
         THEN [raised |-> "IsADirectoryError", out |-> <<>>, fs |-> p]
         ELSE [raised |-> "none", out |-> <<MsgCreated>>, fs |-> json_dump(d)]

(***************************************************************************)
(* scan_dicom_series(dcm_dir): prints one line per directory and per file  *)
(* of the walk and returns series_list, to which nothing is ever appended. *)
(***************************************************************************)
RECURSIVE TraceLines(_, _)
TraceLines(t, i) ==
    IF i > Len(t) THEN <<>>
    ELSE <<"dir">> \o [j \in 1..Len(t[i]) |-> "file"] \o TraceLines(t, i + 1)

\* (keys collected, but the function returns after the first directory of the walk)
scan_dicom_series_first_dir(t) ==
    IF Len(t) = 0 THEN [ret |-> <<>>, out |-> <<>>]
    ELSE LET oks == SelectSeq(t[1], LAMBDA f : f.ok)
         IN  [ret |-> [j \in 1..Len(oks) |-> oks[j].series], out |-> TraceLines(<<t[1]>>, 1)]

scan_dicom_series(t) == [ret |-> <<>>, out |-> TraceLines(t, 1)]

(***************************************************************************)
(* bids_dcm_info(dcm_dir). ds is the empty list until a read succeeds,     *)
(* then the header read: <<>> or <<header>>. reads: the files read.        *)
(***************************************************************************)
Truthy(x) == Len(x) > 0

\* (the loop left after its first file, parsed or not)
FileLoop_break_always(files, j, st) ==
    IF j > Len(files) THEN st
    ELSE [ds |-> IF files[j].ok THEN <<files[j]>> ELSE st.ds,
          reads |-> Append(st.reads, files[j])]

\* for file in files: try: ds = read_file(file) except: pass; if ds: break
RECURSIVE FileLoop(_, _, _)
FileLoop(files, j, st) ==
    IF j > Len(files) THEN st
    ELSE LET ds2 == IF files[j].ok THEN <<files[j]>> ELSE st.ds
             st2 == [ds |-> ds2, reads |-> Append(st.reads, files[j])]
         IN  IF Truthy(ds2) THEN st2 ELSE FileLoop(files, j + 1, st2)

\* for subdir, dirs, files in os.walk(dcm_dir): the break leaves the file loop only
RECURSIVE WalkLoop(_, _, _)
WalkLoop(t, i, st) ==
    IF i > Len(t) THEN st
    ELSE WalkLoop(t, i + 1, FileLoop(t[i], 1, st))

NoInfo == [Sex |-> "", Age |-> 0]

bids_dcm_info(t) ==
    LET st == WalkLoop(t, 1, [ds |-> <<>>, reads |-> <<>>])
        ds == st.ds
    IN  IF Truthy(ds)
        THEN [exit |-> FALSE, code |-> ExitClean, reads |-> st.reads,
              info |-> [Sex |-> IF ds[1].hasSex THEN ds[1].Sex ELSE DefaultSex,
                        Age |-> IF ds[1].hasAge THEN ds[1].Age ELSE DefaultAge]]
        ELSE [exit |-> TRUE, code |-> ExitFatal, reads |-> st.reads, info |-> NoInfo]

(***************************************************************************)
(* Initial state: whatever the user has put on disk, no process running.   *)
(***************************************************************************)
NoRet == [raised |-> "none"]

Init ==
    /\ dictPath \in DictPaths
    /\ bidsRoot \in BOOLEAN
    /\ tree \in Trees
    /\ manifest = <<>>
    /\ outTree = {}
    /\ pc = "idle"
    /\ prot_dict = EmptyDict
    /\ first_pass = "unset"
    /\ series_list = <<>>
    /\ exitCode = ExitClean
    /\ error = "none"
    /\ stdout = <<>>
    /\ runs = 0
    /\ dictBefore = dictPath
    /\ firstRunAbsent = FALSE
    /\ op = "none"
    /\ arg = EmptyDict
    /\ ret = NoRet
    /\ calls = 0
    /\ created = <<>>

NoProcess == pc \in {"idle", "done", "crashed"}

(***************************************************************************)
(* main()                                                                  *)
(***************************************************************************)
\* Names bound when main runs: the imports and the module's own definitions.
\* The commented-out block of main binds nothing.
BoundNames == {"os", "sys", "argparse", "shutil", "json", "dicom", "glob",
               "__version__", "main", "scan_dicom_series", "bids_dcm_info",
               "bids_load_prot_dict", "bids_create_prot_dict"}

BannerPass1 == "Pass 1 : Scan DICOM folders and create dictionary"
BannerPass2 == "Pass 2 : Organizing Nifti data into BIDS directories"

\* The script is started: python dcm2bids_prep.py -i <root>
Start ==
    /\ NoProcess
    /\ runs < MaxRuns
    /\ pc' = "load"
    /\ prot_dict' = EmptyDict
    /\ first_pass' = "unset"
    /\ series_list' = <<>>
    /\ exitCode' = ExitClean
    /\ error' = "none"
    /\ stdout' = <<>>
    /\ runs' = runs + 1
    /\ dictBefore' = dictPath
    /\ firstRunAbsent' = IF runs = 0 THEN dictPath = Absent ELSE firstRunAbsent
    /\ op' = "none"
    /\ arg' = EmptyDict
    /\ ret' = NoRet
    /\ UNCHANGED <<fsVars, calls, created>>

\* prot_dict = bids_load_prot_dict(prot_dict_json); an exception json.load raises is
\* not caught anywhere: the interpreter prints the traceback and exits with status 1.
LoadDict ==
    /\ pc = "load"
    /\ LET r == bids_load_prot_dict(dictPath)
       IN  /\ dictPath' = r.fs
           /\ IF r.raised = "none"
              THEN /\ prot_dict' = r.value
                   /\ pc' = "select"
                   /\ UNCHANGED <<error, exitCode>>
              ELSE /\ pc' = "crashed"
                   /\ error' = r.raised
                   /\ exitCode' = 1
                   /\ UNCHANGED prot_dict
    /\ UNCHANGED <<bidsRoot, tree, manifest, outTree, first_pass, series_list, stdout,
                   runs, dictBefore, firstRunAbsent, libVars>>

\* if prot_dict and os.path.isdir(bids_root_dir): ... else: ...
\* "and" evaluates its right operand only when prot_dict is truthy; the operand
\* reads the name bids_root_dir.
SelectPass ==
    /\ pc = "select"
    /\ IF Truthy(prot_dict)
       THEN IF "bids_root_dir" \in BoundNames
            THEN IF bidsRoot
                 THEN /\ first_pass' = "False"
                      /\ stdout' = Append(stdout, BannerPass2)
                      /\ pc' = "exit"
                      /\ UNCHANGED <<error, exitCode>>
                 ELSE /\ first_pass' = "True"
                      /\ stdout' = Append(stdout, BannerPass1)
                      /\ pc' = "scan"
                      /\ UNCHANGED <<error, exitCode>>
            ELSE /\ pc' = "crashed"
                 /\ error' = "NameError"
                 /\ exitCode' = 1
                 /\ UNCHANGED <<first_pass, stdout>>
       ELSE /\ first_pass' = "True"
            /\ stdout' = Append(stdout, BannerPass1)
            /\ pc' = "scan"
            /\ UNCHANGED <<error, exitCode>>
    /\ UNCHANGED <<fsVars, prot_dict, series_list, runs, dictBefore, firstRunAbsent, libVars>>

\* series_list = scan_dicom_series(dcm_root_dir)
Scan ==
    /\ pc = "scan"
    /\ LET r == scan_dicom_series(tree)
       IN  /\ series_list' = r.ret
           /\ stdout' = stdout \o r.out
    /\ pc' = "exit"
    /\ UNCHANGED <<fsVars, prot_dict, first_pass, exitCode, error, runs, dictBefore,
                   firstRunAbsent, libVars>>

\* sys.exit(0): everything between the pass selection and it is commented out
Exit ==
    /\ pc = "exit"
    /\ exitCode' = ExitClean
    /\ pc' = "done"
    /\ UNCHANGED <<fsVars, prot_dict, first_pass, series_list, error, stdout, runs,
                   dictBefore, firstRunAbsent, libVars>>

(***************************************************************************)
(* The user, between runs: edits, creates or removes the dictionary file,  *)
(* creates or removes the output root.                                     *)
(***************************************************************************)
Ended == pc \in {"done", "crashed"}

UserEdit ==
    /\ Ended
    /\ runs < MaxRuns
    /\ \E p \in DictPaths \ {dictPath} :
          /\ dictPath' = p
          /\ dictBefore' = p
    /\ pc' = "idle"
    /\ prot_dict' = EmptyDict
    /\ first_pass' = "unset"
    /\ series_list' = <<>>
    /\ exitCode' = ExitClean
    /\ error' = "none"
    /\ stdout' = <<>>
    /\ created' = <<>>
    /\ UNCHANGED <<bidsRoot, tree, manifest, outTree, runs, firstRunAbsent, op, arg, ret, calls>>

UserOutputRoot ==
    /\ NoProcess
    /\ runs >= 1
    /\ runs < MaxRuns
    /\ bidsRoot' = ~bidsRoot
    /\ pc' = "idle"
    /\ prot_dict' = EmptyDict
    /\ first_pass' = "unset"
    /\ series_list' = <<>>
    /\ exitCode' = ExitClean
    /\ error' = "none"
    /\ stdout' = <<>>
    /\ dictBefore' = dictPath
    /\ UNCHANGED <<dictPath, tree, manifest, outTree, runs, firstRunAbsent, libVars>>

Next == Start \/ LoadDict \/ SelectPass \/ Scan \/ Exit \/ UserEdit \/ UserOutputRoot

Spec == Init /\ [][Next]_vars

(***************************************************************************)
(* The functions called directly, one call at a time, no script running.   *)
(***************************************************************************)
LibInit == Init /\ ~bidsRoot

CallLoad ==
    /\ pc = "idle"
    /\ calls < MaxCalls
    /\ LET r == bids_load_prot_dict(dictPath)
       IN  /\ ret' = r
           /\ dictPath' = r.fs
    /\ op' = "load"
    /\ arg' = EmptyDict
    /\ stdout' = <<>>
    /\ dictBefore' = dictPath
    /\ calls' = calls + 1
    /\ UNCHANGED <<bidsRoot, tree, manifest, outTree, progVars, created>>

CallCreate ==
    /\ pc = "idle"
    /\ calls < MaxCalls
    /\ \E d \in Dicts :
          LET r == bids_create_prot_dict(dictPath, d)
          IN  /\ ret' = r
              /\ dictPath' = r.fs
              /\ stdout' = r.out
              /\ arg' = d
              /\ created' = IF MsgCreated \in Range(r.out) THEN <<d>> ELSE created
    /\ op' = "create"
    /\ dictBefore' = dictPath
    /\ calls' = calls + 1
    /\ UNCHANGED <<bidsRoot, tree, manifest, outTree, progVars>>

CallScan ==
    /\ pc = "idle"
    /\ calls < MaxCalls
    /\ LET r == scan_dicom_series(tree)
       IN  /\ ret' = r
           /\ stdout' = r.out
    /\ op' = "scan"
    /\ arg' = EmptyDict
    /\ dictBefore' = dictPath
    /\ calls' = calls + 1
    /\ UNCHANGED <<fsVars, progVars, created>>

MsgNoHeader == "* No DICOM header information found"

CallDcmInfo ==
    /\ pc = "idle"
    /\ calls < MaxCalls
    /\ LET r == bids_dcm_info(tree)
       IN  /\ ret' = r
           /\ stdout' = IF r.exit THEN <<MsgNoHeader>> ELSE <<>>
    /\ op' = "dcm_info"
    /\ arg' = EmptyDict
    /\ dictBefore' = dictPath
    /\ calls' = calls + 1
    /\ UNCHANGED <<fsVars, progVars, created>>

\* The dict a load has just returned is written to another path, where nothing exists:
\* bids_create_prot_dict(other_json, bids_load_prot_dict(prot_dict_json))
CallSaveLoaded ==
    /\ pc = "idle"
    /\ calls < MaxCalls
    /\ op = "load"
    /\ ret.raised = "none"
    /\ LET r == bids_create_prot_dict(Absent, ret.value)
       IN  /\ ret' = r
           /\ stdout' = r.out
    /\ arg' = ret.value
    /\ op' = "save_loaded"
    /\ dictBefore' = dictPath
    /\ calls' = calls + 1
    /\ UNCHANGED <<fsVars, progVars, created>>

\* The orders in which the same directories and files can be enumerated: os.walk
\* lists a directory with os.listdir, whose order is the file system's.
Perms(n) == {f \in [1..n -> 1..n] : \A i, j \in 1..n : f[i] = f[j] => i = j}

ReorderSeq(s) == {[i \in 1..Len(s) |-> s[f[i]]] : f \in Perms(Len(s))}

Reorderings(t) ==
    UNION {{u \in [1..Len(td) -> UNION {ReorderSeq(td[i]) : i \in 1..Len(td)}] :
               \A i \in 1..Len(td) : u[i] \in ReorderSeq(td[i])} : td \in ReorderSeq(t)}

\* The tree, unchanged, is scanned again, enumerated in any order; the result of the
\* scan before is kept beside the new one.
CallRescan ==
    /\ pc = "idle"
    /\ calls < MaxCalls
    /\ op = "scan"
    /\ \E u \in Reorderings(tree) :
          LET r == scan_dicom_series(u)
          IN  /\ ret' = [ret |-> r.ret, out |-> r.out, first |-> ret.ret, order |-> u]
              /\ stdout' = r.out
    /\ op' = "rescan"
    /\ arg' = EmptyDict
    /\ dictBefore' = dictPath
    /\ calls' = calls + 1
    /\ UNCHANGED <<fsVars, progVars, created>>

LibNext == CallLoad \/ CallCreate \/ CallScan \/ CallDcmInfo \/ CallSaveLoaded \/ CallRescan

SpecLib == LibInit /\ [][LibNext]_vars

(***************************************************************************)
(* Both: runs of the script and direct calls, on a small input tree.       *)
(***************************************************************************)
AllInit == Init /\ Len(tree) <= 1 /\ \A i \in 1..Len(tree) : Len(tree[i]) <= 1

NextAll == Next \/ LibNext

SpecAll == AllInit /\ [][NextAll]_vars

(***************************************************************************)
(* Claims                                                                  *)
(***************************************************************************)
Printed(msg) == msg \in Range(stdout)

\* The series keys of the parseable files of a tree.
SeriesKeysIn(t) == {f.series : f \in {g \in AllFiles(t) : g.ok}}

\* The dictionary file parses to a non-empty mapping.
DictReady(p) == isfile(p) /\ p.valid /\ Truthy(json_load(p))

\* C1: bids_create_prot_dict never changes what already exists at the dictionary
\* path: called when a file is there, it reports that creation is skipped, raises
\* nothing and leaves the file's content as it was (so a second call, whatever
\* dict it is given, leaves what the first call left).
C1_BootstrapKeepsExisting ==
    op = "create" =>
        /\ dictBefore # Absent => dictPath = dictBefore
        /\ isfile(dictBefore) =>
              /\ Printed(MsgExists) /\ Printed(MsgSkipping) /\ ~Printed(MsgCreated)
              /\ ret.raised = "none"

\* C1 witness: a second call, with another key set, after a call that created the file.
C1_Witness ==
    /\ op = "create"
    /\ calls >= 2
    /\ Truthy(created)
    /\ Printed(MsgSkipping)
    /\ KeysOf(arg) # KeysOf(created[1])
    /\ dictPath = json_dump(created[1])

\* The run has executed its pass selection (line 89), whatever came of it.
Selected == pc \in {"scan", "exit", "done"} \/ (pc = "crashed" /\ error = "NameError")

\* C2: the pass is a function of two predicates: Pass 2 (first_pass False) iff the
\* dictionary file parses to a non-empty mapping and the output root exists, Pass 1
\* (first_pass True) in every other case.
C2_PassSelection ==
    Selected =>
        first_pass = IF DictReady(dictBefore) /\ bidsRoot THEN "False" ELSE "True"

\* C3: a run that began with nothing at the dictionary path performs Pass 1 and ends
\* with exit code 0, no output tree, and a dictionary file holding every key the
\* scanner returned, each mapped to "EXCLUDE".
C3_Pass1WritesTemplate ==
    (Ended /\ dictBefore = Absent) =>
        /\ pc = "done" /\ exitCode = ExitClean /\ first_pass = "True"
        /\ outTree = {}
        /\ isfile(dictPath) /\ dictPath.valid
        /\ Range(series_list) \subseteq KeysOf(json_load(dictPath))
        /\ \A i \in 1..Len(dictPath.members) : dictPath.members[i].val = EXCLUDE

Loaded == pc \in {"select", "scan", "exit", "done", "crashed"}

\* C5: with no file at the dictionary path the load gives the empty mapping and no
\* error; with a file that does not parse the run ends on the parse error: exit
\* status 1, no pass selected or run, no mapping put in its place.
C5_LoadAbsentOrFatal ==
    Loaded =>
        /\ ~isfile(dictBefore) => (prot_dict = EmptyDict /\ error = "none")
        /\ (isfile(dictBefore) /\ ~dictBefore.valid) =>
              /\ pc = "crashed" /\ error = "JSONDecodeError" /\ exitCode = 1
              /\ first_pass = "unset"
              /\ ~Printed(BannerPass1) /\ ~Printed(BannerPass2)
              /\ stdout = <<>> /\ series_list = <<>>

\* C5 witness: a run ended on an unparseable dictionary file.
C5_Witness ==
    /\ pc = "crashed"
    /\ dictBefore = Garbage
    /\ error = "JSONDecodeError"

\* C6: bids_dcm_info exits with code 1 iff no file of the directory parses; otherwise
\* it returns Sex and Age of a parsed header, "Unknown" and 0 where the header lacks them.
C6_DcmInfoAbortIffNoHeader ==
    op = "dcm_info" =>
        /\ ret.exit <=> (\A f \in AllFiles(tree) : ~f.ok)
        /\ ret.exit => (ret.code = ExitFatal /\ Printed(MsgNoHeader))
        /\ ~ret.exit =>
              \E f \in AllFiles(tree) :
                  /\ f.ok
                  /\ ret.info.Sex = (IF f.hasSex THEN f.Sex ELSE DefaultSex)
                  /\ ret.info.Age = (IF f.hasAge THEN f.Age ELSE DefaultAge)

\* C6 witness: the only parseable header, found after an unparseable file, has neither
\* field, and the defaults are returned.
C6_Witness ==
    /\ op = "dcm_info"
    /\ ~ret.exit
    /\ BadFile \in AllFiles(tree)
    /\ \A f \in AllFiles(tree) : f.ok => (~f.hasSex /\ ~f.hasAge)
    /\ ret.info = [Sex |-> DefaultSex, Age |-> DefaultAge]
    /\ Len(ret.reads) >= 2

\* C7: first run with no dictionary, then the user writes labels, then a second run
\* with the output root in place: the second run selects Pass 2 and ends having put
\* in the output tree exactly the series whose label is not "EXCLUDE".
C7_SecondRunTranslates ==
    (Ended /\ runs = 2 /\ firstRunAbsent /\ DictReady(dictBefore) /\ bidsRoot
           /\ \E i \in 1..Len(dictBefore.members) : dictBefore.members[i].val # EXCLUDE) =>
        /\ pc = "done"
        /\ first_pass = "False"
        /\ outTree = {k \in SeriesKeysIn(tree) :
                         /\ k \in KeysOf(json_load(dictBefore))
                         /\ Mapping(json_load(dictBefore))[k] # EXCLUDE}

\* C8: only a bids_create_prot_dict call made where nothing exists puts a file at the
\* dictionary path; no step of a run (load, pass selection, scan, exit) and no call of
\* the load, the scanner or the header reader creates, changes or removes what is
\* there. Every other change of the path is the user's, between runs.
C8_OnlyBootstrapCreates ==
    [][dictPath' # dictPath =>
          \/ Ended /\ pc' = "idle"
          \/ /\ op' = "create" /\ calls' = calls + 1
             /\ dictPath = Absent
             /\ dictPath' = json_dump(arg')]_vars

\* C8 witness: a file written by a bids_create_prot_dict call is still as written after
\* a later run has loaded it and ended.
C8_Witness ==
    /\ Truthy(created)
    /\ Ended
    /\ runs >= 1
    /\ dictPath = json_dump(created[1])
    /\ dictBefore = dictPath

\* C9: scan_dicom_series returns exactly the series keys of the parseable files of the
\* tree, each once.
C9_ScanReturnsSeriesKeys ==
    op = "scan" =>
        /\ Range(ret.ret) = SeriesKeysIn(tree)
        /\ Len(ret.ret) = Cardinality(Range(ret.ret))

\* C10: a run in state READY over a tree holding a series whose key the dictionary
\* lacks ends on the lookup failure, a diagnostic naming that key, with nothing
\* converted under a default label and the manifest rows as they were.
C10_MissingKeyDiagnosed ==
    (Ended /\ DictReady(dictBefore) /\ bidsRoot
           /\ SeriesKeysIn(tree) \ KeysOf(json_load(dictBefore)) # {}) =>
        /\ error = "KeyError"
        /\ outTree \cap (SeriesKeysIn(tree) \ KeysOf(json_load(dictBefore))) = {}
        /\ manifest = <<>>

\* A run that ended, begun in state READY over a tree Pass 2 can translate: every
\* directory that holds files holds a parseable header, and every series key of the
\* tree has an entry in the dictionary.
EndedReadyRun ==
    /\ Ended
    /\ DictReady(dictBefore)
    /\ bidsRoot
    /\ SeriesKeysIn(tree) # {}
    /\ SeriesKeysIn(tree) \subseteq KeysOf(json_load(dictBefore))
    /\ \A i \in 1..Len(tree) : tree[i] # <<>> => \E f \in Range(tree[i]) : f.ok

\* C12: such a run completes Pass 2 and the manifest has gained one row per subject:
\* at least one row, and no more rows than the walk has directories, however the
\* directories divide into subjects (the manifest was empty before the run).
C12_ManifestRowPerSubject ==
    EndedReadyRun =>
        /\ pc = "done"
        /\ first_pass = "False"
        /\ Len(manifest) \in 1..Len(tree)

\* C13: such a run places in the output tree the series whose dictionary label is not
\* "EXCLUDE", and only those.
C13_ConvertedIffNotExcluded ==
    EndedReadyRun =>
        \A k \in SeriesKeysIn(tree) :
            k \in outTree <=> Mapping(json_load(dictBefore))[k] # EXCLUDE

\* The mapping a JSON object text denotes: each key with the value of its last member.
FileMapping(p) ==
    [k \in KeysOf(p.members) |->
        p.members[CHOOSE i \in 1..Len(p.members) :
                     /\ p.members[i].key = k
                     /\ \A j \in 1..Len(p.members) : p.members[j].key = k => j <= i].val]

\* C14: for a well-formed dictionary file f, loading f and writing the loaded dict to a
\* path where nothing exists gives a well-formed file denoting the same mapping as f.
C14_SaveLoadRoundTrip ==
    (op = "save_loaded" /\ isfile(dictBefore) /\ dictBefore.valid) =>
        /\ ret.raised = "none"
        /\ isfile(ret.fs) /\ ret.fs.valid
        /\ FileMapping(ret.fs) = FileMapping(dictBefore)

\* C14 witness: f repeats a key with two values and is not indented as json.dump
\* indents; the file written differs from f as text.
C14_Witness ==
    /\ op = "save_loaded"
    /\ isfile(dictBefore) /\ dictBefore.valid
    /\ Len(dictBefore.members) = 2
    /\ dictBefore.members[1].key = dictBefore.members[2].key
    /\ dictBefore.members[1].val # dictBefore.members[2].val
    /\ dictBefore.indent # DumpIndent
    /\ ret.fs # dictBefore

\* C15: two scans of the same tree, the second enumerating the directories and files
\* in any other order, return the same set of series keys.
C15_ScanOrderIndependent ==
    op = "rescan" => Range(ret.ret) = Range(ret.first)

\* C15 witness: a tree with parseable files of two series, scanned a second time in
\* another order.
C15_Witness ==
    /\ op = "rescan"
    /\ ret.order # tree
    /\ Cardinality(SeriesKeysIn(tree)) >= 2
    /\ Range(ret.ret) = Range(ret.first)

\* C16: bids_dcm_info reads no file after the first that parses, and the Sex and Age
\* it returns are those of that first parsed header.
C16_StopsAtFirstParsed ==
    (op = "dcm_info" /\ ~ret.exit) =>
        LET reads == ret.reads
            first == CHOOSE i \in 1..Len(reads) :
                         reads[i].ok /\ \A j \in 1..(i - 1) : ~reads[j].ok
        IN  /\ \E i \in 1..Len(reads) : reads[i].ok
            /\ first = Len(reads)
            /\ ret.info.Sex = (IF reads[first].hasSex THEN reads[first].Sex ELSE DefaultSex)
            /\ ret.info.Age = (IF reads[first].hasAge THEN reads[first].Age ELSE DefaultAge)

\* C17: every run over an absent, empty or non-empty dictionary, with or without the
\* output root, selects one of the two passes and ends at the clean exit, code 0; with
\* an absent or empty dictionary the pass is Pass 1.
C17_EveryRunExitsClean ==
    (Ended /\ (dictBefore = Absent \/ (isfile(dictBefore) /\ dictBefore.valid))) =>
        /\ pc = "done"
        /\ exitCode = ExitClean
        /\ first_pass \in {"True", "False"}
        /\ ~DictReady(dictBefore) => first_pass = "True"

====
